---- MODULE Spec2Model ----
(***************************************************************************)
(* rustmate: the outcome of a two-piece chess position.                    *)
(*                                                                         *)
(*   src/src/piece.rs   Piece, Color, PieceKind and the capture predicates *)
(*   src/src/board.rs   Board: squares, turn, place_piece, side_to_move,   *)
(*                      finish_game                                        *)
(*                                                                         *)
(* Three specifications share the variables:                               *)
(*   Spec          the Board as a state machine: any sequence of           *)
(*                 place_piece, next_turn, side_to_move and finish_game    *)
(*                 on a board made by default_board;                       *)
(*   SpecCapture   Piece::can_capture as a pure function of a piece and a  *)
(*                 target square, over the whole 8x8 board;                *)
(*   SpecResolve   side_to_move / finish_game on the boards that hold one  *)
(*                 White and one Black piece.                              *)
(***************************************************************************)
EXTENDS Integers, FiniteSets, Sequences, TLC

VARIABLES
    squares,    \* Board.squares: HashMap<(usize, usize), Option<Piece>>
    turn,       \* Board.turn: Color
    piece,      \* SpecCapture: the receiver (self) of can_capture
    target,     \* SpecCapture: the argument of can_capture
    ret,        \* the last call and what it returned
    calls,      \* the number of next_turn calls made on the board
    arg         \* the argument of the call under test: the character and
                \* position of from_char, the file of from_path, the other
                \* board of Board::eq

vars == <<squares, turn, piece, target, ret, calls, arg>>

----------------------------------------------------------------------------
(* Bounds of the model.                                                    *)

\* Spec: place_piece is called with the coordinates 0, BoardSize - 1 (the
\* last one on the board) and the MaxOver coordinates that follow it.
MaxOver == 1

\* next_turn is called at most MaxTurns times on one board.
MaxTurns == 2

\* Spec: no more than MaxPieces pieces are placed on one board.
MaxPieces == 2

\* SpecResolve: the two pieces stand on squares of (0 .. MaxCoord)^2.
MaxCoord == 3

\* SpecParser: a file has at most BoardSize + MaxExtraLines lines.
MaxExtraLines == 1
MaxEqPieces == 2

----------------------------------------------------------------------------
(* Values.                                                                 *)

\* The board is 8 x 8: default_board inserts (x, y) for x, y in 0..8
\* (exclusive), and place_piece rejects a coordinate > 7.
BoardSize == 8

\* Option<T>: None, Some(x).
None == <<>>
Some(x) == <<x>>
unwrap(o) == o[1]

Color == {"White", "Black"}

PieceKind == {"Rook", "Knight", "King", "Bishop", "Queen", "Pawn"}

\* struct Piece { color, kind, position }
Piece(c, k, pos) == [color |-> c, kind |-> k, position |-> pos]

color(p) == p.color

get_position(p) == p.position

\* Winner::{White, Black, Draw}
Winner == {"White", "Black", "Draw"}

\* BoardError::{InvalidPosition, PositionOccupied}
BoardError == {"InvalidPosition", "PositionOccupied"}

Abs(n) == IF n < 0 THEN -n ELSE n

\* The squares of the board.
Positions == (0 .. BoardSize - 1) \X (0 .. BoardSize - 1)

----------------------------------------------------------------------------
(* piece.rs: the capture predicates.  The coordinates are usize values     *)
(* cast to i32 before the subtraction; on the coordinates of this model    *)
(* (at most BoardSize) the cast and the subtraction are exact.             *)

\* capture_with_knight with one of the two shapes of the move left out.
capture_with_knight_one_shape(p, target_position) ==
    LET x_diff == Abs(p.position[1] - target_position[1])
        y_diff == Abs(p.position[2] - target_position[2])
    IN  x_diff = 1 /\ y_diff = 2

capture_with_knight(p, target_position) ==
    LET x_diff == Abs(p.position[1] - target_position[1])
        y_diff == Abs(p.position[2] - target_position[2])
    IN  (x_diff = 1 /\ y_diff = 2) \/ (x_diff = 2 /\ y_diff = 1)

\* capture_with_rook with || in the place of &&.
capture_with_rook_or(p, target_position) ==
    IF p.position[1] # target_position[1] \/ p.position[2] # target_position[2]
    THEN FALSE
    ELSE TRUE

capture_with_rook(p, target_position) ==
    IF p.position[1] # target_position[1] /\ p.position[2] # target_position[2]
    THEN FALSE
    ELSE TRUE

\* capture_with_king without the exclusion of the king's own square.
capture_with_king_own_square(p, target_position) ==
    LET dx == Abs(target_position[1] - p.position[1])
        dy == Abs(target_position[2] - p.position[2])
    IN  IF dx > 1 \/ dy > 1 THEN FALSE ELSE TRUE

capture_with_king(p, target_position) ==
    LET dx == Abs(target_position[1] - p.position[1])
        dy == Abs(target_position[2] - p.position[2])
    IN  IF dx > 1 \/ dy > 1 \/ (dx = 0 /\ dy = 0) THEN FALSE ELSE TRUE

\* capture_with_bishop without the abs(): one diagonal direction only.
capture_with_bishop_signed(p, target_position) ==
    LET x_diff == p.position[1] - target_position[1]
        y_diff == p.position[2] - target_position[2]
    IN  x_diff = y_diff

capture_with_bishop(p, target_position) ==
    LET x_diff == Abs(p.position[1] - target_position[1])
        y_diff == Abs(p.position[2] - target_position[2])
    IN  x_diff = y_diff

\* capture_with_queen as a rook only.
capture_with_queen_rook_only(p, target_position) ==
    capture_with_rook(p, target_position)

capture_with_queen(p, target_position) ==
    capture_with_rook(p, target_position) \/ capture_with_bishop(p, target_position)

\* capture_with_pawn with the direction of White for both colours.
capture_with_pawn_one_direction(p, target_position) ==
    LET y1 == p.position[2]
        y2 == target_position[2]
        x_diff == Abs(p.position[1] - target_position[1])
        y_diff == Abs(y1 - y2)
        is_diagonal_distance == x_diff = 1 /\ y_diff = 1
        is_valid_direction == y2 > y1
    IN  is_diagonal_distance /\ is_valid_direction

\* capture_with_pawn with the directions of the two colours exchanged.
capture_with_pawn_reversed(p, target_position) ==
    LET y1 == p.position[2]
        y2 == target_position[2]
        x_diff == Abs(p.position[1] - target_position[1])
        y_diff == Abs(y1 - y2)
        is_diagonal_distance == x_diff = 1 /\ y_diff = 1
        is_valid_direction == IF p.color = "White" THEN y2 < y1 ELSE y2 > y1
    IN  is_diagonal_distance /\ is_valid_direction

capture_with_pawn(p, target_position) ==
    LET y1 == p.position[2]
        y2 == target_position[2]
        x_diff == Abs(p.position[1] - target_position[1])
        y_diff == Abs(y1 - y2)
        is_diagonal_distance == x_diff = 1 /\ y_diff = 1
        is_valid_direction == IF p.color = "White" THEN y2 > y1 ELSE y2 < y1
    IN  is_diagonal_distance /\ is_valid_direction

capture_piece_at(p, position) ==
    CASE p.kind = "Rook"   -> capture_with_rook(p, position)
      [] p.kind = "King"   -> capture_with_king(p, position)
      [] p.kind = "Knight" -> capture_with_knight(p, position)
      [] p.kind = "Bishop" -> capture_with_bishop(p, position)
      [] p.kind = "Queen"  -> capture_with_queen(p, position)
      [] p.kind = "Pawn"   -> capture_with_pawn(p, position)

can_capture(p, position) == capture_piece_at(p, position)

----------------------------------------------------------------------------
(* piece.rs: Piece::from_char.  A char is a one-character string; the      *)
(* characters of the model are the twelve piece letters, '_', and          *)
(* characters that denote no piece: two ASCII letters in both cases, a     *)
(* digit, a space and a lowercase letter outside ASCII.                    *)

AsciiLowercase == {"r", "d", "a", "c", "t", "p", "w", "x"}

AsciiUppercase == {"R", "D", "A", "C", "T", "P", "W", "X"}

Chars == AsciiLowercase \cup AsciiUppercase \cup {"_", "1", " ", "é"}

\* char::is_lowercase (Unicode Lowercase)
is_lowercase(c) == c \in AsciiLowercase \cup {"é"}

\* char::to_ascii_uppercase: the ASCII letters a..z to A..Z, any other
\* character to itself.
to_ascii_uppercase(c) ==
    CASE c = "r" -> "R" [] c = "d" -> "D" [] c = "a" -> "A" [] c = "c" -> "C"
      [] c = "t" -> "T" [] c = "p" -> "P" [] c = "w" -> "W" [] c = "x" -> "X"
      [] OTHER -> c

\* char::len_utf8
len_utf8(c) == IF c = "é" THEN 2 ELSE 1

\* char::is_whitespace
is_whitespace(c) == c = " "

\* Result values: Ok(val), and Err(err) with the character an error carries.
Ok(v) == [ok |-> TRUE, err |-> "", c |-> "", val |-> v]
Err(e, ch) == [ok |-> FALSE, err |-> e, c |-> ch, val |-> None]

\* from_char with the letters of the King and the Rook exchanged.
from_char_rook_for_r(c, position) ==
    IF c = "_" THEN Ok(None)
    ELSE LET col == IF is_lowercase(c) THEN "White" ELSE "Black"
             u == to_ascii_uppercase(c)
         IN  CASE u = "R" -> Ok(Some(Piece(col, "Rook", position)))
               [] u = "D" -> Ok(Some(Piece(col, "Queen", position)))
               [] u = "A" -> Ok(Some(Piece(col, "Bishop", position)))
               [] u = "C" -> Ok(Some(Piece(col, "Knight", position)))
               [] u = "T" -> Ok(Some(Piece(col, "King", position)))
               [] u = "P" -> Ok(Some(Piece(col, "Pawn", position)))
               [] OTHER -> Err("InvalidPieceKind", c)

\* Piece::from_char
from_char(c, position) ==
    IF c = "_" THEN Ok(None)
    ELSE LET col == IF is_lowercase(c) THEN "White" ELSE "Black"
             u == to_ascii_uppercase(c)
         IN  CASE u = "R" -> Ok(Some(Piece(col, "King", position)))
               [] u = "D" -> Ok(Some(Piece(col, "Queen", position)))
               [] u = "A" -> Ok(Some(Piece(col, "Bishop", position)))
               [] u = "C" -> Ok(Some(Piece(col, "Knight", position)))
               [] u = "T" -> Ok(Some(Piece(col, "Rook", position)))
               [] u = "P" -> Ok(Some(Piece(col, "Pawn", position)))
               [] OTHER -> Err("InvalidPieceKind", c)

----------------------------------------------------------------------------
(* board.rs: the Board.                                                    *)

\* HashMap::insert
Insert(m, k, v) == [x \in DOMAIN m \cup {k} |-> IF x = k THEN v ELSE m[x]]

\* Board::default_board: every square of the board mapped to None.
default_board == [squares |-> [pos \in Positions |-> None], turn |-> "White"]

\* is_position_empty that reports every square empty.
is_position_empty_always(sq, position) == TRUE

is_position_empty(sq, position) ==
    IF position \in DOMAIN sq THEN sq[position] = None ELSE TRUE

\* place_piece that rejects a position only when both coordinates exceed 7.
place_piece_both_exceed(sq, p) ==
    LET position == get_position(p)
    IN  IF position[1] > 7 /\ position[2] > 7
        THEN [squares |-> sq, result |-> "InvalidPosition"]
        ELSE IF ~is_position_empty(sq, position)
        THEN [squares |-> sq, result |-> "PositionOccupied"]
        ELSE [squares |-> Insert(sq, position, Some(p)), result |-> "Ok"]

\* Board::place_piece: the squares after the call and the Result returned
\* ("Ok" for Ok(()), the BoardError for Err).
place_piece(sq, p) ==
    LET position == get_position(p)
    IN  IF position[1] > 7 \/ position[2] > 7
        THEN [squares |-> sq, result |-> "InvalidPosition"]
        ELSE IF ~is_position_empty(sq, position)
        THEN [squares |-> sq, result |-> "PositionOccupied"]
        ELSE [squares |-> Insert(sq, position, Some(p)), result |-> "Ok"]

piece_at(sq, position) ==
    IF position \in DOMAIN sq THEN sq[position] ELSE None

\* Board::get_piece_position_based_on_turn: find_map over the HashMap's
\* iterator returns the first square, in the map's unspecified iteration
\* order, that holds a piece of the colour: any of them, or None when there
\* is none.  The set of the positions it may return (empty: None).
get_piece_position_based_on_turn(sq, c) ==
    {pos \in DOMAIN sq : sq[pos] # None /\ color(unwrap(sq[pos])) = c}

curr_turn(t) == t

\* get_next_turn that gives Black whatever the turn.
get_next_turn_black(t) == IF t = "White" THEN "Black" ELSE "Black"

get_next_turn(t) == IF t = "White" THEN "Black" ELSE "White"

\* side_to_move_match with a first-mover tie-break: when both pieces can
\* capture, the colour to move wins.
side_to_move_match_first_mover(current_turn_has_capture, next_turn_has_capture, t) ==
    CASE current_turn_has_capture /\ t = "White" -> Some("White")
      [] ~current_turn_has_capture /\ next_turn_has_capture /\ t = "White" -> Some("Black")
      [] current_turn_has_capture /\ t = "Black" -> Some("Black")
      [] ~current_turn_has_capture /\ next_turn_has_capture /\ t = "Black" -> Some("White")
      [] OTHER -> None

\* side_to_move_match with the winner's colour fixed whatever the turn.
side_to_move_match_fixed_colour(current_turn_has_capture, next_turn_has_capture, t) ==
    CASE current_turn_has_capture /\ ~next_turn_has_capture -> Some("White")
      [] ~current_turn_has_capture /\ next_turn_has_capture -> Some("Black")
      [] current_turn_has_capture /\ next_turn_has_capture -> Some("Draw")
      [] OTHER -> None

\* The match of side_to_move on
\* (current_turn_has_capture, next_turn_has_capture, self.turn).
side_to_move_match(current_turn_has_capture, next_turn_has_capture, t) ==
    CASE current_turn_has_capture /\ ~next_turn_has_capture /\ t = "White" -> Some("White")
      [] ~current_turn_has_capture /\ next_turn_has_capture /\ t = "White" -> Some("Black")
      [] current_turn_has_capture /\ ~next_turn_has_capture /\ t = "Black" -> Some("Black")
      [] ~current_turn_has_capture /\ next_turn_has_capture /\ t = "Black" -> Some("White")
      [] current_turn_has_capture /\ next_turn_has_capture -> Some("Draw")
      [] OTHER -> None

\* Board::side_to_move: the set of its possible outcomes, each
\* [panic |-> TRUE] (an unwrap of None) or [panic |-> FALSE, val |-> Option<Winner>].
side_to_move(sq, t) ==
    LET curr == get_piece_position_based_on_turn(sq, curr_turn(t))
        next == get_piece_position_based_on_turn(sq, get_next_turn(t))
    IN  IF curr = {} \/ next = {}
        THEN {[panic |-> TRUE, val |-> None]}
        ELSE {[panic |-> FALSE,
               val |-> LET curr_piece == unwrap(piece_at(sq, cp))
                           next_piece == unwrap(piece_at(sq, np))
                       IN  side_to_move_match(can_capture(curr_piece, np),
                                              can_capture(next_piece, cp), t)]
              : <<cp, np>> \in curr \X next}

\* finish_game with the characters of the two colours exchanged.
finish_game_char_exchanged(w) ==
    IF w = None THEN "P"
    ELSE CASE unwrap(w) = "White" -> "N"
           [] unwrap(w) = "Black" -> "B"
           [] unwrap(w) = "Draw"  -> "E"

\* The closure of finish_game: Winner -> char, and 'P' for None.
finish_game_char(w) ==
    IF w = None THEN "P"
    ELSE CASE unwrap(w) = "White" -> "B"
           [] unwrap(w) = "Black" -> "N"
           [] unwrap(w) = "Draw"  -> "E"

\* Board::finish_game: the set of its possible outcomes.
finish_game(sq, t) ==
    {[panic |-> r.panic, val |-> IF r.panic THEN "" ELSE finish_game_char(r.val)]
        : r \in side_to_move(sq, t)}

\* The pieces on the board.
pieces(sq) == {unwrap(sq[pos]) : pos \in {q \in DOMAIN sq : sq[q] # None}}

\* HashMap::new()
HashMap_new == [pos \in {} |-> None]

\* squares.values().filter_map(|v| v.as_ref()).collect(): the pieces of the
\* map in its unspecified iteration order; the set of the vectors it may
\* give.
values_filter_map(sq) ==
    LET keys == {k \in DOMAIN sq : sq[k] # None}
        n    == Cardinality(keys)
    IN  {[i \in 1 .. n |-> unwrap(sq[f[i]])] :
            f \in {g \in [1 .. n -> keys] : \A i, j \in 1 .. n : i # j => g[i] # g[j]}}

\* Ord of (usize, usize): lexicographic.
PositionLess(a, b) == a[1] < b[1] \/ (a[1] = b[1] /\ a[2] < b[2])

\* sort_by_key that leaves the vector as it is.
sort_by_key_unsorted(v) == v

\* Vec::sort_by_key(|p| p.get_position()): a stable sort, by insertion of
\* the last element after the elements whose key is not greater.
RECURSIVE sort_by_key(_)
sort_by_key(v) ==
    IF v = <<>> THEN <<>>
    ELSE LET s == sort_by_key(SubSeq(v, 1, Len(v) - 1))
             p == v[Len(v)]
             k == Cardinality({i \in 1 .. Len(s) :
                      ~PositionLess(get_position(p), get_position(s[i]))})
         IN  SubSeq(s, 1, k) \o <<p>> \o SubSeq(s, k + 1, Len(s))

\* impl PartialEq for Board: the set of the results eq may give, one for
\* each iteration order of the two maps.
eq(sq, t, other_sq, other_t) ==
    IF t # other_t THEN {FALSE}
    ELSE {sort_by_key(ps) = sort_by_key(other_ps) :
            ps \in values_filter_map(sq), other_ps \in values_filter_map(other_sq)}

----------------------------------------------------------------------------
(* parser.rs                                                               *)

\* impl From<BoardError> for ParserError
from_board_error(e) ==
    CASE e = "InvalidPosition" -> "InvalidPosition"
      [] e = "PositionOccupied" -> "PositionOccupied"

\* impl From<PieceError> for ParserError: InvalidPieceKind(c) -> InvalidPiece(c)
from_piece_error(r) == Err("InvalidPiece", r.c)

\* add_to_board: the squares after the call and the Result returned.
add_to_board(sq, position, c) ==
    LET made == from_char(c, position)
    IN  IF ~made.ok THEN [squares |-> sq, result |-> from_piece_error(made)]
        ELSE IF made.val = None THEN [squares |-> sq, result |-> Ok(None)]
        ELSE LET placed == place_piece(sq, unwrap(made.val))
             IN  IF placed.result = "Ok"
                 THEN [squares |-> placed.squares, result |-> Ok(None)]
                 ELSE [squares |-> sq,
                       result |-> Err(from_board_error(placed.result), "")]

\* line.split_whitespace().collect::<String>(): the characters of the line
\* that are not whitespace.
split_whitespace_collect(line) == SelectSeq(line, LAMBDA ch : ~is_whitespace(ch))

\* String::len: the length of the string in bytes of UTF-8.
RECURSIVE String_len(_)
String_len(str) ==
    IF str = <<>> THEN 0 ELSE len_utf8(Head(str)) + String_len(Tail(str))

\* file_is_empty: the length of the file is 0, which is a file of no line.
file_is_empty(file) == file.lines = <<>>

\* guard_board_size with the two errors exchanged.
guard_board_size_exchanged(tokens) ==
    IF tokens # 8
    THEN IF tokens > 8 THEN Err("NotEnoughTokens", "") ELSE Err("InvalidBoardSize", "")
    ELSE Ok(None)

guard_board_size(tokens) ==
    IF tokens # 8
    THEN IF tokens > 8 THEN Err("InvalidBoardSize", "") ELSE Err("NotEnoughTokens", "")
    ELSE Ok(None)

\* The inner loop of from_path with the two indices of the position
\* exchanged.
add_line_transposed(sq, piece_line, i, j) ==
    LET Step[k \in j .. Len(piece_line)] ==
            IF k = j THEN [squares |-> sq, result |-> Ok(None)]
            ELSE LET done == Step[k - 1]
                 IN  IF ~done.result.ok THEN done
                     ELSE add_to_board(done.squares, <<k - 1, i>>, piece_line[k])
    IN  Step[Len(piece_line)]

\* The inner loop of from_path, for (j, c) in piece_line.chars().enumerate()
\* from the j-th character on: add_to_board(board, (i, j), c)?, left to
\* right, up to the first error.  Step[k] is the outcome after k characters.
add_line(sq, piece_line, i, j) ==
    LET Step[k \in j .. Len(piece_line)] ==
            IF k = j THEN [squares |-> sq, result |-> Ok(None)]
            ELSE LET done == Step[k - 1]
                 IN  IF ~done.result.ok THEN done
                     ELSE add_to_board(done.squares, <<i, k - 1>>, piece_line[k])
    IN  Step[Len(piece_line)]

\* The body of the outer loop with the characters handled before the width
\* of the line is checked.
read_line_chars_first(sq, line, i) ==
    LET piece_line == split_whitespace_collect(line)
        size == guard_board_size(String_len(piece_line))
        added == add_line(sq, piece_line, i, 0)
    IN  IF ~added.result.ok THEN added
        ELSE IF ~size.ok THEN [squares |-> sq, result |-> size]
        ELSE added

\* The body of the outer loop of from_path for the i-th line.
read_line(sq, line, i) ==
    LET piece_line == split_whitespace_collect(line)
        size == guard_board_size(String_len(piece_line))
    IN  IF ~size.ok THEN [squares |-> sq, result |-> size]
        ELSE add_line(sq, piece_line, i, 0)

\* The outer loop of from_path, for (i, line) in reader.lines().enumerate():
\* Read[n] is the outcome after n lines; rows counts the lines that were
\* read without error.
read_lines(sq, lines) ==
    LET Read[n \in 0 .. Len(lines)] ==
            IF n = 0 THEN [squares |-> sq, result |-> Ok(None), rows |-> 0]
            ELSE LET done == Read[n - 1]
                 IN  IF ~done.result.ok THEN done
                     ELSE LET r == read_line(done.squares, lines[n], n - 1)
                          IN  [squares |-> r.squares, result |-> r.result,
                               rows |-> IF r.result.ok THEN done.rows + 1 ELSE done.rows]
    IN  Read[Len(lines)]

\* from_path: Ok(board) or Err(ParserError).  A file is
\* [exists |-> whether File::open succeeds, lines |-> its lines of text].
from_path(file) ==
    IF ~file.exists THEN Err("FileNotExists", "")
    ELSE IF file_is_empty(file) THEN Err("FileIsEmpty", "")
    ELSE LET read == read_lines(default_board.squares, file.lines)
         IN  IF ~read.result.ok THEN read.result
             ELSE IF read.rows # 8 THEN Err("InvalidBoardSize", "")
             ELSE Ok([squares |-> read.squares, turn |-> default_board.turn])

----------------------------------------------------------------------------
(* Spec: the Board as a state machine.                                     *)

NoCall == [op |-> "none"]

\* The coordinates place_piece is called with.
Coords == {0} \cup (BoardSize - 1 .. BoardSize - 1 + MaxOver)

\* The kinds of the pieces place_piece is called with (those of
\* test_place_piece_occupied_position).
PlacedKinds == {"King", "Pawn"}

PlaceInputs == {Piece(c, k, pos) : c \in Color, k \in PlacedKinds, pos \in Coords \X Coords}

Init ==
    /\ squares = default_board.squares
    /\ turn = default_board.turn
    /\ piece = None
    /\ target = None
    /\ ret = NoCall
    /\ calls = 0
    /\ arg = None

PlacePiece(p) ==
    LET r == place_piece(squares, p)
    IN  /\ ret' = [op |-> "place_piece", val |-> r.result]
        /\ squares' = r.squares
        /\ r.result = "Ok" => Cardinality(pieces(squares)) < MaxPieces
        /\ UNCHANGED <<turn, piece, target, calls, arg>>

NextTurn ==
    /\ calls < MaxTurns
    /\ turn' = get_next_turn(turn)
    /\ ret' = [op |-> "next_turn"]
    /\ calls' = calls + 1
    /\ UNCHANGED <<squares, piece, target, arg>>

SideToMove ==
    /\ \E r \in side_to_move(squares, turn) :
          ret' = [op |-> "side_to_move", panic |-> r.panic, val |-> r.val]
    /\ UNCHANGED <<squares, turn, piece, target, calls, arg>>

FinishGame ==
    /\ \E r \in finish_game(squares, turn) :
          ret' = [op |-> "finish_game", panic |-> r.panic, val |-> r.val]
    /\ UNCHANGED <<squares, turn, piece, target, calls, arg>>

Next ==
    \/ \E p \in PlaceInputs : PlacePiece(p)
    \/ NextTurn
    \/ SideToMove
    \/ FinishGame

Spec == Init /\ [][Next]_vars

----------------------------------------------------------------------------
(* SpecCapture: can_capture on every piece and target of the board.        *)

AllPieces == {Piece(c, k, pos) : c \in Color, k \in PieceKind, pos \in Positions}

InitCapture ==
    /\ squares = default_board.squares
    /\ turn = default_board.turn
    /\ piece \in AllPieces
    /\ target \in Positions
    /\ ret = NoCall
    /\ calls = 0
    /\ arg = None

CanCapture ==
    /\ ret = NoCall
    /\ ret' = [op |-> "can_capture", val |-> can_capture(piece, target)]
    /\ UNCHANGED <<squares, turn, piece, target, calls, arg>>

NextCapture == CanCapture

SpecCapture == InitCapture /\ [][NextCapture]_vars

----------------------------------------------------------------------------
(* SpecResolve: the boards with one White and one Black piece, made by two *)
(* place_piece calls on default_board.                                     *)

Window == (0 .. MaxCoord) \X (0 .. MaxCoord)

TwoPieceBoards ==
    {place_piece(place_piece(default_board.squares, Piece("White", wk, wp)).squares,
                 Piece("Black", bk, bp)).squares
        : <<wk, bk, wp, bp>> \in
            {q \in PieceKind \X PieceKind \X Window \X Window : q[3] # q[4]}}

InitResolve ==
    /\ squares \in TwoPieceBoards
    /\ turn = default_board.turn
    /\ piece = None
    /\ target = None
    /\ ret = NoCall
    /\ calls = 0
    /\ arg = None

NextResolve ==
    \/ NextTurn
    \/ SideToMove
    \/ FinishGame

SpecResolve == InitResolve /\ [][NextResolve]_vars

----------------------------------------------------------------------------
(* SpecFromChar: from_char on every character of the model and every       *)
(* position with coordinates 0 .. BoardSize (from_char does not look at    *)
(* the position).                                                          *)

InitFromChar ==
    /\ squares = default_board.squares
    /\ turn = default_board.turn
    /\ piece = None
    /\ target = None
    /\ ret = NoCall
    /\ calls = 0
    /\ arg \in [c : Chars, position : (0 .. BoardSize) \X (0 .. BoardSize)]

FromChar ==
    /\ ret = NoCall
    /\ ret' = [op |-> "from_char", result |-> from_char(arg.c, arg.position),
               parser |-> add_to_board(default_board.squares, arg.position, arg.c).result]
    /\ UNCHANGED <<squares, turn, piece, target, calls, arg>>

NextFromChar == FromChar

SpecFromChar == InitFromChar /\ [][NextFromChar]_vars

----------------------------------------------------------------------------
(* SpecParser: main.rs.  from_path on a file, then finish_game on the      *)
(* board it returns.  The files are the boards of '_' of 0 to              *)
(* BoardSize + MaxExtraLines lines in which up to two lines are replaced   *)
(* by one of LineShapes, and the file that cannot be opened.               *)

\* A line of n characters: marks[j] at the columns j of marks, '_' elsewhere.
Line(n, marks) == [j \in 1 .. n |-> IF j \in DOMAIN marks THEN marks[j] ELSE "_"]

\* The line with a space between its characters, as the fixtures write it.
Spaced(line) ==
    [k \in 1 .. 2 * Len(line) - 1 |-> IF k % 2 = 1 THEN line[(k + 1) \div 2] ELSE " "]

BlankLine == Line(BoardSize, <<>>)

LineShapes ==
    {BlankLine,
     Spaced(BlankLine),
     Line(BoardSize - 1, <<>>),
     Line(BoardSize + 1, <<>>),
     Line(BoardSize, 1 :> "d"),
     Line(BoardSize, 4 :> "t"),
     Line(BoardSize, 8 :> "R"),
     Line(BoardSize, (2 :> "p") @@ (6 :> "D")),
     Spaced(Line(BoardSize, 7 :> "d")),
     Line(BoardSize, 4 :> "W"),
     Line(BoardSize, (1 :> "X") @@ (4 :> "W")),
     Line(BoardSize, (2 :> "p") @@ (3 :> "W")),
     Line(BoardSize + 1, 1 :> "W"),
     Line(BoardSize, 8 :> "é"),
     Line(BoardSize - 1, 7 :> "é")}

Files ==
    {[k \in 1 .. n |-> IF k = e[2] THEN e[4] ELSE IF k = e[1] THEN e[3] ELSE BlankLine]
        : n \in 0 .. BoardSize + MaxExtraLines,
          e \in (1 .. BoardSize + MaxExtraLines) \X (1 .. BoardSize + MaxExtraLines)
                    \X LineShapes \X LineShapes}

ParserInputs ==
    {[exists |-> FALSE, lines |-> <<>>]} \cup {[exists |-> TRUE, lines |-> f] : f \in Files}

InitParser ==
    /\ squares = default_board.squares
    /\ turn = default_board.turn
    /\ piece = None
    /\ target = None
    /\ ret = NoCall
    /\ calls = 0
    /\ arg \in ParserInputs

\* main: match from_path(&filename)
FromPath ==
    /\ ret = NoCall
    /\ LET r == from_path(arg)
       IN  /\ ret' = [op |-> "from_path", ok |-> r.ok, err |-> r.err, c |-> r.c]
           /\ squares' = IF r.ok THEN r.val.squares ELSE squares
           /\ turn' = IF r.ok THEN r.val.turn ELSE turn
    /\ UNCHANGED <<piece, target, calls, arg>>

\* main: Ok(board) => println!("{}", board.finish_game())
PrintFinishGame ==
    /\ ret.op = "from_path"
    /\ ret.ok
    /\ FinishGame

NextParser ==
    \/ FromPath
    \/ PrintFinishGame

SpecParser == InitParser /\ [][NextParser]_vars

----------------------------------------------------------------------------
(* Two boards, each built from Board::default_board() or from an empty map *)
(* by place_piece and next_turn, and compared with ==.  squares and turn   *)
(* are the board on the left, arg is the board on the right.               *)

EqPieces ==
    {Piece("White", "King", <<0, 0>>), Piece("Black", "King", <<0, 0>>),
     Piece("Black", "King", <<1, 1>>), Piece("Black", "Pawn", <<1, 1>>),
     Piece("White", "Queen", <<7, 6>>)}

InitEq ==
    /\ squares \in {default_board.squares, HashMap_new}
    /\ turn = "White"
    /\ piece = None
    /\ target = None
    /\ ret = NoCall
    /\ calls = 0
    /\ arg \in {[squares |-> sq, turn |-> "White"] : sq \in {default_board.squares, HashMap_new}}

PlaceSelf(p) ==
    /\ Cardinality(pieces(squares)) < MaxEqPieces
    /\ LET r == place_piece(squares, p)
       IN  /\ ret' = [op |-> "place_piece", val |-> r.result]
           /\ squares' = r.squares
    /\ UNCHANGED <<turn, piece, target, calls, arg>>

PlaceOther(p) ==
    /\ Cardinality(pieces(arg.squares)) < MaxEqPieces
    /\ LET r == place_piece(arg.squares, p)
       IN  /\ ret' = [op |-> "place_piece", val |-> r.result]
           /\ arg' = [arg EXCEPT !.squares = r.squares]
    /\ UNCHANGED <<squares, turn, piece, target, calls>>

NextTurnSelf ==
    /\ turn' = get_next_turn(turn)
    /\ ret' = [op |-> "next_turn"]
    /\ UNCHANGED <<squares, piece, target, calls, arg>>

NextTurnOther ==
    /\ arg' = [arg EXCEPT !.turn = get_next_turn(arg.turn)]
    /\ ret' = [op |-> "next_turn"]
    /\ UNCHANGED <<squares, turn, piece, target, calls>>

Eq ==
    /\ ret' = [op |-> "eq", val |-> eq(squares, turn, arg.squares, arg.turn)]
    /\ UNCHANGED <<squares, turn, piece, target, calls, arg>>

NextEq ==
    \/ \E p \in EqPieces : PlaceSelf(p)
    \/ \E p \in EqPieces : PlaceOther(p)
    \/ NextTurnSelf
    \/ NextTurnOther
    \/ Eq

SpecEq == InitEq /\ [][NextEq]_vars

----------------------------------------------------------------------------
(* Properties of side_to_move, checked under SpecResolve.                  *)

Opponent(c) == IF c = "White" THEN "Black" ELSE "White"

\* The board holds exactly one piece of each colour.
OnePieceEach == \A c \in Color : Cardinality({p \in pieces(squares) : p.color = c}) = 1

\* The piece of the colour to move, and the other piece.
MoverPiece == CHOOSE p \in pieces(squares) : p.color = turn
OtherPiece == CHOOSE p \in pieces(squares) : p.color = Opponent(turn)

\* a: the piece to move can capture the square of the other piece;
\* b: the other piece can capture the square of the piece to move.
MoverCaptures == can_capture(MoverPiece, OtherPiece.position)
OtherCaptures == can_capture(OtherPiece, MoverPiece.position)

\* C1: on a board with one White and one Black piece side_to_move does not
\* abort and returns Draw when both pieces can capture the other, the colour
\* to move when only its piece can, the other colour when only the other
\* piece can, and None when neither can.
C1_SideToMoveClassifies ==
    (ret.op = "side_to_move" /\ OnePieceEach) =>
        /\ ~ret.panic
        /\ (MoverCaptures /\ OtherCaptures) => ret.val = Some("Draw")
        /\ (MoverCaptures /\ ~OtherCaptures) => ret.val = Some(turn)
        /\ (~MoverCaptures /\ OtherCaptures) => ret.val = Some(Opponent(turn))
        /\ (~MoverCaptures /\ ~OtherCaptures) => ret.val = None

\* Black is to move, only the White piece can capture: White wins.
C1_Witness ==
    /\ ret.op = "side_to_move"
    /\ OnePieceEach
    /\ turn = "Black"
    /\ ~MoverCaptures
    /\ OtherCaptures
    /\ ret.val = Some("White")

\* Winner with White and Black exchanged; Draw and None are kept.
SwapWinner(w) ==
    IF w = Some("White") THEN Some("Black")
    ELSE IF w = Some("Black") THEN Some("White")
    ELSE w

\* C2: the result of side_to_move is the match's value on the two capture
\* predicates and the turn alone, and on the same two predicates with the
\* other colour to move the match gives the result with White and Black
\* exchanged: a White win becomes a Black win and conversely, Draw and None
\* stay.
C2_ResolverSymmetry ==
    (ret.op = "side_to_move" /\ OnePieceEach) =>
        /\ ret.val = side_to_move_match(MoverCaptures, OtherCaptures, turn)
        /\ side_to_move_match(MoverCaptures, OtherCaptures, Opponent(turn))
              = SwapWinner(ret.val)
        /\ ret.val \in {None, Some("Draw")} =>
              side_to_move_match(MoverCaptures, OtherCaptures, Opponent(turn)) = ret.val

\* White is to move and wins: with Black to move on the same predicates
\* the match gives a Black win.
C2_Witness ==
    /\ ret.op = "side_to_move"
    /\ OnePieceEach
    /\ turn = "White"
    /\ ret.val = Some("White")
    /\ side_to_move_match(MoverCaptures, OtherCaptures, "Black") = Some("Black")

----------------------------------------------------------------------------
(* Properties of can_capture, checked under SpecCapture.                   *)

\* The signed offset of the target from the piece.
OffX == target[1] - piece.position[1]
OffY == target[2] - piece.position[2]

Called(kind) == ret.op = "can_capture" /\ piece.kind = kind

\* C3: a Pawn can capture exactly the targets one file away and one rank
\* away, the rank above it for a White pawn and below it for a Black one: not
\* the square straight ahead, not a backward diagonal.  For a piece of any
\* other kind the result is the same when only its colour is changed.
C3_PawnCapture ==
    /\ Called("Pawn") =>
          /\ ret.val = (/\ Abs(OffX) = 1
                        /\ Abs(OffY) = 1
                        /\ piece.color = "White" => target[2] > piece.position[2]
                        /\ piece.color = "Black" => target[2] < piece.position[2])
          /\ (OffX = 0) => ~ret.val
          /\ (piece.color = "White" /\ OffY < 0) => ~ret.val
          /\ (piece.color = "Black" /\ OffY > 0) => ~ret.val
    /\ (ret.op = "can_capture" /\ piece.kind # "Pawn") =>
          can_capture([piece EXCEPT !.color = Opponent(piece.color)], target) = ret.val

\* A White pawn captures a forward diagonal that a Black pawn on its square
\* does not.
C3_Witness ==
    /\ Called("Pawn")
    /\ piece.color = "White"
    /\ piece.position = <<2, 1>>
    /\ target = <<1, 2>>
    /\ ret.val
    /\ ~can_capture([piece EXCEPT !.color = "Black"], target)

\* C4: a King can capture exactly the (up to eight) neighbouring squares:
\* not its own square, and no square two or more away in a coordinate.
C4_KingCapture ==
    Called("King") =>
        /\ ret.val = (/\ target # piece.position
                      /\ OffX \in {-1, 0, 1}
                      /\ OffY \in {-1, 0, 1})
        /\ (Abs(OffX) >= 2 \/ Abs(OffY) >= 2) => ~ret.val
        /\ (target = piece.position) => ~ret.val

C4_Witness ==
    /\ Called("King")
    /\ piece.position = <<3, 3>>
    /\ target = <<4, 2>>
    /\ ret.val

KnightOffsets ==
    {<<1, 2>>, <<1, -2>>, <<-1, 2>>, <<-1, -2>>, <<2, 1>>, <<2, -1>>, <<-2, 1>>, <<-2, -1>>}

\* C5: a Knight can capture exactly the targets at one of the eight offsets
\* (+-1, +-2), (+-2, +-1).
C5_KnightCapture ==
    Called("Knight") => ret.val = (<<OffX, OffY>> \in KnightOffsets)

C5_Witness ==
    /\ Called("Knight")
    /\ piece.position = <<3, 2>>
    /\ target = <<5, 1>>
    /\ ret.val

\* C6: a Rook can capture exactly the targets that share its first or its
\* second coordinate, its own square included.
C6_RookCapture ==
    Called("Rook") =>
        /\ ret.val = (target[1] = piece.position[1] \/ target[2] = piece.position[2])
        /\ (target = piece.position) => ret.val

C6_Witness ==
    /\ Called("Rook")
    /\ piece.position = <<0, 0>>
    /\ target = <<5, 0>>
    /\ ret.val

\* C7: a Bishop can capture exactly the targets whose two coordinates differ
\* from its own by the same absolute amount, its own square included.
C7_BishopCapture ==
    Called("Bishop") =>
        /\ ret.val = (\E k \in 0 .. BoardSize - 1 :
                         /\ OffX \in {k, -k}
                         /\ OffY \in {k, -k})
        /\ (target = piece.position) => ret.val

C7_Witness ==
    /\ Called("Bishop")
    /\ piece.position = <<2, 2>>
    /\ target = <<0, 4>>
    /\ ret.val

\* C8: a Queen can capture a target iff a Rook or a Bishop of its colour on
\* its square can.
C8_QueenCapture ==
    Called("Queen") =>
        ret.val = (\/ can_capture([piece EXCEPT !.kind = "Rook"], target)
                   \/ can_capture([piece EXCEPT !.kind = "Bishop"], target))

\* A diagonal target: the Bishop can capture it and the Rook cannot.
C8_Witness ==
    /\ Called("Queen")
    /\ piece.position = <<2, 2>>
    /\ target = <<4, 0>>
    /\ ret.val
    /\ ~can_capture([piece EXCEPT !.kind = "Rook"], target)

----------------------------------------------------------------------------
(* Properties of place_piece, checked under Spec.                          *)

OnBoard(c) == c \in 0 .. BoardSize - 1

\* Every stored piece stands on the board, under the square that is its own
\* position; a square holds None or one piece.
C9_StoredPieces ==
    \A pos \in DOMAIN squares :
        /\ Len(squares[pos]) <= 1
        /\ squares[pos] # None =>
              /\ get_position(unwrap(squares[pos])) = pos
              /\ OnBoard(pos[1])
              /\ OnBoard(pos[2])

\* A step keeps every piece that the board holds.
C9_PiecesKept ==
    \A pos \in DOMAIN squares :
        squares[pos] # None => (pos \in DOMAIN squares' /\ squares'[pos] = squares[pos])

\* C9: after any sequence of place_piece calls on a default_board every
\* stored piece has both coordinates in [0,7] and is stored under its own
\* position, no square holds more than one piece, and a piece once placed is
\* never removed or replaced.
C9_PlacementInvariant == []C9_StoredPieces /\ [][C9_PiecesKept]_vars

\* Two pieces are on the board and a further place_piece has failed.
C9_Witness ==
    /\ Cardinality(pieces(squares)) = 2
    /\ ret.op = "place_piece"
    /\ ret.val = "PositionOccupied"

\* What a place_piece(p) step must do.
C10_PlaceContract(p) ==
    LET position == p.position
    IN  IF position[1] > 7 \/ position[2] > 7
        THEN /\ ret'.val = "InvalidPosition"
             /\ squares' = squares
             /\ turn' = turn
        ELSE IF piece_at(squares, position) # None
        THEN /\ ret'.val = "PositionOccupied"
             /\ squares' = squares
             /\ piece_at(squares', position) = piece_at(squares, position)
             /\ turn' = turn
        ELSE /\ ret'.val = "Ok"
             /\ piece_at(squares', position) = Some(p)

\* C10: place_piece returns Err(InvalidPosition) when a coordinate of the
\* piece exceeds 7 and Err(PositionOccupied) when its square holds a piece,
\* and leaves the squares and the turn as they were in both cases; otherwise
\* it returns Ok and piece_at(position) is the placed piece.
C10_PlacePieceResult ==
    [][\A p \in PlaceInputs : PlacePiece(p) => C10_PlaceContract(p)]_vars

\* A place_piece on an occupied square has failed and the square still holds
\* the piece placed first, of the other colour and kind.
C10_Witness ==
    /\ ret.op = "place_piece"
    /\ ret.val = "PositionOccupied"
    /\ pieces(squares) = {Piece("White", "King", <<0, 0>>)}

----------------------------------------------------------------------------
(* Properties of the turn, checked under Spec.                             *)

\* The turn is White exactly after an even number of next_turn calls.
C11_TurnParity == (turn = "White") <=> (calls % 2 = 0)

\* A next_turn step gives the turn to the other colour and keeps the
\* squares; a place_piece, side_to_move or finish_game step keeps the turn.
C11_TurnStep ==
    /\ ret'.op = "next_turn" =>
          /\ calls' = calls + 1
          /\ turn' # turn
          /\ turn' \in Color
          /\ squares' = squares
    /\ ret'.op \in {"place_piece", "side_to_move", "finish_game"} =>
          /\ calls' = calls
          /\ turn' = turn

\* C11: the turn of a default_board is White and alternates with every
\* next_turn call, so that after n calls it is White iff n is even;
\* next_turn never changes the pieces, and place_piece, side_to_move and
\* finish_game never change the turn.
C11_TurnAlternates == []C11_TurnParity /\ [][C11_TurnStep]_vars

\* After two next_turn calls, with a piece placed in between, the turn is
\* White again.
C11_Witness ==
    /\ calls = 2
    /\ turn = "White"
    /\ ret.op = "next_turn"
    /\ Cardinality(pieces(squares)) = 1

----------------------------------------------------------------------------
(* Properties of finish_game, checked under SpecResolve.                   *)

\* The one outcome of side_to_move on the board, when it is one.
OnlyOutcome(w) == side_to_move(squares, turn) = {[panic |-> FALSE, val |-> w]}

\* C12: finish_game returns 'B', 'N', 'E' or 'P': 'B' iff side_to_move is
\* a White win, 'N' iff a Black win, 'E' iff a Draw and 'P' iff it is None,
\* which is when neither piece can capture the other.
C12_FinishGameChar ==
    (ret.op = "finish_game" /\ OnePieceEach) =>
        /\ ~ret.panic
        /\ ret.val \in {"B", "N", "E", "P"}
        /\ ret.val = "B" <=> OnlyOutcome(Some("White"))
        /\ ret.val = "N" <=> OnlyOutcome(Some("Black"))
        /\ ret.val = "E" <=> OnlyOutcome(Some("Draw"))
        /\ ret.val = "P" <=> OnlyOutcome(None)
        /\ ret.val = "P" <=> (~MoverCaptures /\ ~OtherCaptures)

\* Black is to move and wins: 'N'.
C12_Witness ==
    /\ ret.op = "finish_game"
    /\ OnePieceEach
    /\ turn = "Black"
    /\ MoverCaptures
    /\ ~OtherCaptures
    /\ ret.val = "N"

\* The White piece and the Black piece of a board with one of each.
WhitePiece == CHOOSE p \in pieces(squares) : p.color = "White"
BlackPiece == CHOOSE p \in pieces(squares) : p.color = "Black"

WhiteCaptures == can_capture(WhitePiece, BlackPiece.position)
BlackCaptures == can_capture(BlackPiece, WhitePiece.position)

\* The result by colour: a White win iff only the White piece can capture,
\* a Black win iff only the Black piece can, Draw iff both, None iff
\* neither.
ResultByColour ==
    IF WhiteCaptures /\ BlackCaptures THEN Some("Draw")
    ELSE IF WhiteCaptures THEN Some("White")
    ELSE IF BlackCaptures THEN Some("Black")
    ELSE None

CharByColour ==
    IF WhiteCaptures /\ BlackCaptures THEN "E"
    ELSE IF WhiteCaptures THEN "B"
    ELSE IF BlackCaptures THEN "N"
    ELSE "P"

\* side_to_move and finish_game give the result by colour, whatever the
\* turn is.
C18_ByColour ==
    OnePieceEach =>
        /\ side_to_move(squares, turn) = {[panic |-> FALSE, val |-> ResultByColour]}
        /\ finish_game(squares, turn) = {[panic |-> FALSE, val |-> CharByColour]}
        /\ ret.op = "side_to_move" => (~ret.panic /\ ret.val = ResultByColour)
        /\ ret.op = "finish_game" => (~ret.panic /\ ret.val = CharByColour)

\* A next_turn step changes the turn and keeps the results.
C18_NextTurnKeeps ==
    (OnePieceEach /\ ret'.op = "next_turn" /\ turn' # turn) =>
        /\ side_to_move(squares', turn') = side_to_move(squares, turn)
        /\ finish_game(squares', turn') = finish_game(squares, turn)

\* C18: on a board with one White and one Black piece the result of
\* side_to_move and of finish_game is the same before and after next_turn,
\* and it is a White win iff only the White piece can capture, a Black win
\* iff only the Black piece can, Draw iff both can and None iff neither
\* can, whatever the turn is.
C18_TurnIndependent == []C18_ByColour /\ [][C18_NextTurnKeeps]_vars

\* After next_turn Black is to move and the result is still the White win
\* of the White piece, the only one that can capture.
C18_Witness ==
    /\ ret.op = "next_turn"
    /\ OnePieceEach
    /\ turn = "Black"
    /\ WhiteCaptures
    /\ ~BlackCaptures
    /\ OnlyOutcome(Some("White"))

----------------------------------------------------------------------------
(* Properties of from_char, checked under SpecFromChar.                    *)

\* The letters of the pieces: <<character, colour, kind>>.
PieceLetters ==
    {<<"r", "White", "King">>,   <<"R", "Black", "King">>,
     <<"d", "White", "Queen">>,  <<"D", "Black", "Queen">>,
     <<"a", "White", "Bishop">>, <<"A", "Black", "Bishop">>,
     <<"c", "White", "Knight">>, <<"C", "Black", "Knight">>,
     <<"t", "White", "Rook">>,   <<"T", "Black", "Rook">>,
     <<"p", "White", "Pawn">>,   <<"P", "Black", "Pawn">>}

\* C14: from_char(c, pos) is Ok(None) for '_'; for the letters r, d, a, c,
\* t, p in either case it is the King, Queen, Bishop, Knight, Rook or Pawn
\* at pos, White for the lowercase letter and Black for the uppercase one;
\* for every other character it is Err(InvalidPieceKind(c)) with the
\* character itself, which add_to_board returns as InvalidPiece(c).
C14_FromChar ==
    ret.op = "from_char" =>
        /\ arg.c = "_" => ret.result = Ok(None)
        /\ \A l \in PieceLetters :
              arg.c = l[1] => ret.result = Ok(Some(Piece(l[2], l[3], arg.position)))
        /\ arg.c \notin {"_"} \cup {l[1] : l \in PieceLetters} =>
              /\ ret.result = Err("InvalidPieceKind", arg.c)
              /\ ret.parser = Err("InvalidPiece", arg.c)

\* 'R' is the Black King.
C14_Witness ==
    /\ ret.op = "from_char"
    /\ arg.c = "R"
    /\ arg.position = <<2, 3>>
    /\ ret.result = Ok(Some(Piece("Black", "King", <<2, 3>>)))

----------------------------------------------------------------------------
(* Properties of from_path, checked under SpecParser.  The lines and the   *)
(* rows of a file are counted from 1 here: line i holds the squares        *)
(* (i - 1, 0) .. (i - 1, 7).                                               *)

NLines == Len(arg.lines)

\* The tokens of line i: its characters that are not spaces.
Tokens(i) == SelectSeq(arg.lines[i], LAMBDA ch : ch # " ")

\* The width of line i in characters, and in bytes of UTF-8.
CharWidth(i) == Len(Tokens(i))
ByteWidth(i) == String_len(Tokens(i))

PieceTokens == {l[1] : l \in PieceLetters}

ValidToken(ch) == ch = "_" \/ ch \in PieceTokens

\* from_path returned the error e.
Failed(e) == ret.op = "from_path" /\ ~ret.ok /\ ret.err = e

\* Line i is read without error: it is 8 bytes wide, its tokens are valid,
\* and it holds no piece when it comes after the eighth line.
CleanLine(i) ==
    /\ ByteWidth(i) = 8
    /\ \A k \in 1 .. CharWidth(i) : ValidToken(Tokens(i)[k])
    /\ i > BoardSize => \A k \in 1 .. CharWidth(i) : Tokens(i)[k] = "_"

\* Line i is 8 characters wide with valid tokens, and so are the lines
\* before it.
UpToValid(i) ==
    \A l \in 1 .. i :
        /\ CharWidth(l) = 8
        /\ \A k \in 1 .. 8 : ValidToken(Tokens(l)[k])

C15_ParsedBoard ==
    (ret.op = "from_path" /\ arg.exists /\ NLines = 8 /\ UpToValid(NLines)) =>
        /\ ret.ok
        /\ turn = "White"
        /\ DOMAIN squares = Positions
        /\ \A i \in 0 .. 7 : \A j \in 0 .. 7 :
              LET token == Tokens(i + 1)[j + 1]
              IN  /\ token = "_" => piece_at(squares, <<i, j>>) = None
                  /\ \A l \in PieceLetters :
                        token = l[1] =>
                            piece_at(squares, <<i, j>>) = Some(Piece(l[2], l[3], <<i, j>>))

\* The file of test_valid_token: 'd' is token 6 of line 7, written with
\* spaces, and a Black King on line 0.
C15_Witness ==
    /\ ret.op = "from_path"
    /\ ret.ok
    /\ arg.lines[8] = Spaced(Line(BoardSize, 7 :> "d"))
    /\ piece_at(squares, <<7, 6>>) = Some(Piece("White", "Queen", <<7, 6>>))
    /\ piece_at(squares, <<0, 7>>) = Some(Piece("Black", "King", <<0, 7>>))

\* The first line that is not read without error.
FirstBadLine == CHOOSE i \in 1 .. NLines : ~CleanLine(i) /\ \A l \in 1 .. i - 1 : CleanLine(l)

\* The first token of an 8 bytes wide line i that is not accepted.
FirstBadToken(i) ==
    CHOOSE k \in 1 .. CharWidth(i) :
        /\ ~(Tokens(i)[k] = "_" \/ (Tokens(i)[k] \in PieceTokens /\ i <= BoardSize))
        /\ \A m \in 1 .. k - 1 :
              Tokens(i)[m] = "_" \/ (Tokens(i)[m] \in PieceTokens /\ i <= BoardSize)

\* The error of line i: its width first, then its tokens from the left.
LineError(i) ==
    IF ByteWidth(i) > 8 THEN Err("InvalidBoardSize", "")
    ELSE IF ByteWidth(i) < 8 THEN Err("NotEnoughTokens", "")
    ELSE LET token == Tokens(i)[FirstBadToken(i)]
         IN  IF ValidToken(token) THEN Err("InvalidPosition", "")
             ELSE Err("InvalidPiece", token)

\* C17: from_path returns the first error in reading order: that of the
\* first line not read without error, which is its width error if it has
\* one and else that of its first token not accepted; InvalidBoardSize for
\* the count of the lines only when every line was read without error.
C17_FirstError ==
    (ret.op = "from_path" /\ arg.exists /\ NLines > 0) =>
        IF \E i \in 1 .. NLines : ~CleanLine(i)
        THEN /\ ~ret.ok
             /\ ret.err = LineError(FirstBadLine).err
             /\ ret.c = LineError(FirstBadLine).c
        ELSE IF NLines # 8 THEN Failed("InvalidBoardSize")
        ELSE ret.ok

\* A ninth line with a piece after eight lines of '_': InvalidPosition.
C17_Witness ==
    /\ Failed("InvalidPosition")
    /\ NLines = BoardSize + 1
    /\ \A i \in 1 .. BoardSize : arg.lines[i] = BlankLine
    /\ arg.lines[BoardSize + 1] = Line(BoardSize, 4 :> "t")

\* C19: every board that from_path returns holds exactly one White and one
\* Black piece, and finish_game on it returns 'B', 'N', 'E' or 'P' and does
\* not abort.
C19_AcceptedBoards ==
    /\ (ret.op = "from_path" /\ ret.ok) => OnePieceEach
    /\ ret.op = "finish_game" =>
          /\ OnePieceEach
          /\ ~ret.panic
          /\ ret.val \in {"B", "N", "E", "P"}

----------------------------------------------------------------------------
(* Board equality, checked under SpecEq.                                   *)

\* C16: two boards are equal iff their turns are equal and they hold the
\* same pieces, whatever the iteration order of the two maps and whether
\* the empty squares are stored or absent; boards with different turns are
\* never equal.
C16_BoardEq ==
    ret.op = "eq" =>
        ret.val = {turn = arg.turn /\ pieces(squares) = pieces(arg.squares)}

\* Equal boards of two pieces, one with its empty squares stored and one
\* without.
C16_Witness ==
    /\ ret.op = "eq"
    /\ ret.val = {TRUE}
    /\ Cardinality(pieces(squares)) = 2
    /\ DOMAIN squares = Positions
    /\ Cardinality(DOMAIN arg.squares) = 2

----------------------------------------------------------------------------
(* Two pieces of one kind, checked under SpecCapture: piece stands on its  *)
(* square and a piece of the same kind and the other colour on target.     *)

SameKindPiece == Piece(Opponent(piece.color), piece.kind, target)

SameKindBoard ==
    place_piece(place_piece(default_board.squares, piece).squares, SameKindPiece).squares

\* C20: when the two pieces are of the same kind and stand on distinct
\* squares, each can capture the other's square iff the other can capture
\* its square, and side_to_move returns Draw (when they can) or None (when
\* they cannot), never a winner, for either turn.
C20_SameKindNoWinner ==
    (ret.op = "can_capture" /\ target # piece.position) =>
        /\ can_capture(SameKindPiece, piece.position) = ret.val
        /\ \A t \in Color :
              side_to_move(SameKindBoard, t) =
                  {[panic |-> FALSE, val |-> IF ret.val THEN Some("Draw") ELSE None]}

\* A White pawn and a Black pawn that face each other on a diagonal: Draw.
C20_Witness ==
    /\ Called("Pawn")
    /\ piece.color = "White"
    /\ ret.val
    /\ can_capture(SameKindPiece, piece.position)
    /\ side_to_move(SameKindBoard, "Black") = {[panic |-> FALSE, val |-> Some("Draw")]}

====
